---- MODULE Spec2Model ----
(***************************************************************************)
(* Model of src/components/structures/PostPanel.js: the visibility filter, *)
(* the continuation test, the assembly of the render list (tiles, their    *)
(* sub-events, read-marker nodes), the read-receipt aggregation with its   *)
(* per-user fallback cache, and the read-marker / ghost-marker lifecycle   *)
(* of one PostPanel instance, with the ghost nodes' frame callbacks.       *)
(***************************************************************************)
EXTENDS Integers, Sequences, FiniteSets, Bags, TLC

VARIABLES
    phase,                \* React lifecycle of the instance: constructed, mounted, unmounted
    isMounted,            \* this._isMounted
    props,                \* this.props
    ghostReadMarkers,     \* this.state.ghostReadMarkers (an array)
    committedGhostReadMarkers, \* ghostReadMarkers of the state React last committed
    readReceiptsByEvent,  \* this._readReceiptsByEvent (event id -> array of receipts)
    readReceiptsByUserId, \* this._readReceiptsByUserId (insertion-ordered object)
    showHiddenEventsInTimeline, \* this._showHiddenEventsInTimeline, cached by the constructor
    pendingRerender,      \* a setState() has been issued and its re-render has not run yet
    ignoredUsers,         \* MatrixClientPeg.get().isUserIgnored
    receiptPos,           \* the room's receipts: where each remote read receipt currently sits
    mxEvents,             \* the MatrixEvent objects of the room, by event id
    ghostNodes,           \* by event id, the newest ghost <hr> made for it: in the DOM, or held by a frame callback
    frames,               \* the queued requestAnimationFrame callbacks: a bag of the event ids of their nodes
    out                   \* <<v>> once the function a specification applies has returned v

vars == <<phase, isMounted, props, ghostReadMarkers, committedGhostReadMarkers,
          readReceiptsByEvent,
          readReceiptsByUserId, showHiddenEventsInTimeline, pendingRerender,
          ignoredUsers, receiptPos, mxEvents, ghostNodes, frames, out>>

(***************************************************************************)
(* Bounds of the model.                                                    *)
(***************************************************************************)
\* number of events of the room's timeline; event ids are 1..MaxEvents
MaxEvents == 2
\* cap on the length of the ghostReadMarkers array
MaxGhosts == 3
\* longest log handed to _getEventTiles by the specifications that apply it
MaxLogLen == 3
\* frame callbacks queued at once for the ghost nodes of one event
MaxFrames == 2

\* undefined / null, where an event id is expected
None == 0
\* undefined / null, where a user id or a sender is expected
NoUser == ""
\* undefined / null, where an event's send status is expected
NoStatus == ""

EventIds == 1..MaxEvents

\* MatrixClientPeg.get().credentials.userId
MyUserId == "me"
\* the other members of the room; the first one is never ignored
OtherUsers == <<"u1", "u2">>
IgnorableUsers == {"u2"}

messageTypes == {"m.sticker", "m.room.message"}

CONTINUATION_MAX_INTERVAL == 5 * 60 * 1000
continuedTypes == {"m.sticker", "m.room.message"}

(***************************************************************************)
(* The events of the room.  An event object carries what the panel reads  *)
(* of it: getId(), sender (the RoomMember's userId, NoUser when the member *)
(* is missing), sender.name, sender.getMxcAvatarUrl(), getSender(),        *)
(* getType(), isRedacted(), the m.in_reply_to event id of its content,     *)
(* status / getAssociatedStatus(), getTs(), haveTileForEvent() and         *)
(* shouldHideEvent().                                                      *)
(*                                                                         *)
(* In the timeline of Spec and SpecReceipts, event i is sent by u2 when i  *)
(* is odd and by u1 when i is even; every even event is one that           *)
(* shouldHideEvent() hides (an edit).  A log (props.events) is any         *)
(* subsequence of the timeline.                                            *)
(***************************************************************************)
TimelineEvent(i) ==
    [ id            |-> i,
      sender        |-> IF i % 2 = 1 THEN "u2" ELSE "u1",
      senderName    |-> IF i % 2 = 1 THEN "u2" ELSE "u1",
      senderAvatar  |-> IF i % 2 = 1 THEN "u2" ELSE "u1",
      getSender     |-> IF i % 2 = 1 THEN "u2" ELSE "u1",
      type          |-> "m.room.message",
      redacted      |-> FALSE,
      inReplyTo     |-> None,
      status        |-> NoStatus,
      ts            |-> i * 60000,
      haveTile      |-> TRUE,
      hideByDefault |-> (i % 2 = 0) ]

Timeline == [i \in EventIds |-> TimelineEvent(i)]

\* the event object with id i
MatrixEvent(i) == mxEvents[i]

\* null / undefined, where an event object is expected
NoEvent == [id |-> None]

RECURSIVE SubSeqOf(_, _)
SubSeqOf(S, i) ==
    IF i > MaxEvents THEN <<>>
    ELSE (IF i \in S THEN <<i>> ELSE <<>>) \o SubSeqOf(S, i + 1)

Logs == { SubSeqOf(S, 1) : S \in SUBSET EventIds }

\* the continuation test with the interval bound excluded
shouldFormContinuation_Strict(prevEvent, mxEvent) ==
    IF prevEvent.id = None \/ prevEvent.sender = NoUser \/ mxEvent.sender = NoUser THEN FALSE
    ELSE IF mxEvent.ts - prevEvent.ts >= CONTINUATION_MAX_INTERVAL THEN FALSE
    ELSE IF mxEvent.redacted # prevEvent.redacted THEN FALSE
    ELSE IF /\ mxEvent.type # prevEvent.type
            /\ (mxEvent.type \notin continuedTypes \/ prevEvent.type \notin continuedTypes)
         THEN FALSE
    ELSE IF \/ mxEvent.sender # prevEvent.sender
            \/ mxEvent.senderName # prevEvent.senderName
            \/ mxEvent.senderAvatar # prevEvent.senderAvatar
         THEN FALSE
    ELSE IF ~prevEvent.haveTile THEN FALSE
    ELSE TRUE

(***************************************************************************)
(* shouldFormContinuation                                                  *)
(***************************************************************************)
shouldFormContinuation(prevEvent, mxEvent) ==
    IF prevEvent.id = None \/ prevEvent.sender = NoUser \/ mxEvent.sender = NoUser THEN FALSE
    ELSE IF mxEvent.ts - prevEvent.ts > CONTINUATION_MAX_INTERVAL THEN FALSE
    ELSE IF mxEvent.redacted # prevEvent.redacted THEN FALSE
    ELSE IF /\ mxEvent.type # prevEvent.type
            /\ (mxEvent.type \notin continuedTypes \/ prevEvent.type \notin continuedTypes)
         THEN FALSE
    ELSE IF \/ mxEvent.sender # prevEvent.sender
            \/ mxEvent.senderName # prevEvent.senderName
            \/ mxEvent.senderAvatar # prevEvent.senderAvatar
         THEN FALSE
    ELSE IF ~prevEvent.haveTile THEN FALSE
    ELSE TRUE

\* the filter with the debug setting consulted before the redaction test
shouldShowEvent_DebugFirst(mxEv, p) ==
    IF mxEv.sender # NoUser /\ mxEv.sender \in ignoredUsers THEN FALSE
    ELSE IF mxEv.type \notin messageTypes THEN FALSE
    ELSE IF mxEv.inReplyTo # None THEN FALSE
    ELSE IF showHiddenEventsInTimeline THEN TRUE
    ELSE IF mxEv.redacted THEN FALSE
    ELSE IF ~mxEv.haveTile THEN FALSE
    ELSE IF p.highlightedEventId = mxEv.id THEN TRUE
    ELSE ~mxEv.hideByDefault

(***************************************************************************)
(* _shouldShowEvent                                                        *)
(***************************************************************************)
shouldShowEvent(mxEv, p) ==
    IF mxEv.sender # NoUser /\ mxEv.sender \in ignoredUsers THEN FALSE
    ELSE IF mxEv.type \notin messageTypes THEN FALSE
    ELSE IF mxEv.inReplyTo # None THEN FALSE
    ELSE IF mxEv.redacted THEN FALSE
    ELSE IF showHiddenEventsInTimeline THEN TRUE
    ELSE IF ~mxEv.haveTile THEN FALSE
    ELSE IF p.highlightedEventId = mxEv.id THEN TRUE
    ELSE ~mxEv.hideByDefault

(***************************************************************************)
(* room.getReceiptsForEvent: every event carries the viewer's own receipt  *)
(* and a receipt of another type; the m.read receipt of each other user    *)
(* sits on the event receiptPos gives for it (None: on no event).  A       *)
(* receipt's timestamp is that of the event it sits on.                    *)
(***************************************************************************)
RECURSIVE RemoteReceipts(_, _)
RemoteReceipts(eventId, k) ==
    IF k > Len(OtherUsers) THEN <<>>
    ELSE (IF receiptPos[OtherUsers[k]] = eventId
          THEN << [userId |-> OtherUsers[k], type |-> "m.read", ts |-> eventId * 100] >>
          ELSE <<>>) \o RemoteReceipts(eventId, k + 1)

getReceiptsForEvent(eventId) ==
    << [userId |-> OtherUsers[1], type |-> "m.fully_read", ts |-> eventId * 100 + 1] >>
    \o RemoteReceipts(eventId, 1)
    \o << [userId |-> MyUserId, type |-> "m.read", ts |-> eventId * 100 + 2] >>

(***************************************************************************)
(* _getReadReceiptsForEvent (room present)                                 *)
(***************************************************************************)
KeepReceipt(r) ==
    /\ ~(r.userId = NoUser \/ r.type # "m.read" \/ r.userId = MyUserId)
    /\ r.userId \notin ignoredUsers

RECURSIVE FilterReceipts(_, _)
FilterReceipts(raw, k) ==
    IF k > Len(raw) THEN <<>>
    ELSE (IF KeepReceipt(raw[k])
          THEN << [userId |-> raw[k].userId, roomMember |-> raw[k].userId, ts |-> raw[k].ts] >>
          ELSE <<>>) \o FilterReceipts(raw, k + 1)

getReadReceiptsForEvent(eventId) == FilterReceipts(getReceiptsForEvent(eventId), 1)

(***************************************************************************)
(* Objects used as maps.  receiptsByEvent is a function on its keys;       *)
(* receiptsByUserId keeps its insertion order (for..in visits the keys in  *)
(* that order), so it is a sequence of entries with distinct userId.       *)
(***************************************************************************)
EmptyMap == [k \in {} |-> <<>>]

GetOrEmpty(m, k) == IF k \in DOMAIN m THEN m[k] ELSE <<>>

Put(m, k, v) == [x \in (DOMAIN m) \cup {k} |-> IF x = k THEN v ELSE m[x]]

UserIdsOf(byUser) == { byUser[k].userId : k \in 1..Len(byUser) }

\* receiptsByUserId[userId] = entry: overwrite in place, or add as the last key
SetUser(byUser, entry) ==
    IF entry.userId \in UserIdsOf(byUser)
    THEN [k \in 1..Len(byUser) |->
             IF byUser[k].userId = entry.userId THEN entry ELSE byUser[k]]
    ELSE Append(byUser, entry)

EntryOf(byUser, u) ==
    byUser[CHOOSE k \in 1..Len(byUser) : byUser[k].userId = u]

RECURSIVE RecordReceipts(_, _, _, _)
RecordReceipts(byUser, newReceipts, lastShownEventId, k) ==
    IF k > Len(newReceipts) THEN byUser
    ELSE RecordReceipts(
             SetUser(byUser, [userId |-> newReceipts[k].userId,
                              lastShownEventId |-> lastShownEventId,
                              receipt |-> newReceipts[k]]),
             newReceipts, lastShownEventId, k + 1)

\* the first loop forgetting the last shown event at every hidden event
FoldEvent_NoCarry(acc, eventId, p) ==
    LET lastShownEventId ==
            IF shouldShowEvent(MatrixEvent(eventId), p) THEN eventId ELSE None
    IN  IF lastShownEventId = None THEN [acc EXCEPT !.lastShownEventId = None]
        ELSE IF ~p.room THEN [acc EXCEPT !.lastShownEventId = lastShownEventId,
                                         !.threw = TRUE]
        ELSE LET newReceipts == getReadReceiptsForEvent(eventId)
             IN  [ lastShownEventId |-> lastShownEventId,
                   receiptsByEvent  |->
                       Put(acc.receiptsByEvent, lastShownEventId,
                           GetOrEmpty(acc.receiptsByEvent, lastShownEventId) \o newReceipts),
                   receiptsByUserId |->
                       RecordReceipts(acc.receiptsByUserId, newReceipts, lastShownEventId, 1),
                   threw |-> FALSE ]

(***************************************************************************)
(* _getReadReceiptsByShownEvent, first loop: one forward pass over         *)
(* props.events.  acc = [lastShownEventId, receiptsByEvent,                *)
(* receiptsByUserId, threw].  Without a room _getReadReceiptsForEvent      *)
(* returns null and `for (const receipt of newReceipts)` throws.           *)
(***************************************************************************)
FoldEvent(acc, eventId, p) ==
    LET lastShownEventId ==
            IF shouldShowEvent(MatrixEvent(eventId), p) THEN eventId
            ELSE acc.lastShownEventId
    IN  IF lastShownEventId = None THEN acc
        ELSE IF ~p.room THEN [acc EXCEPT !.lastShownEventId = lastShownEventId,
                                         !.threw = TRUE]
        ELSE LET newReceipts == getReadReceiptsForEvent(eventId)
             IN  [ lastShownEventId |-> lastShownEventId,
                   receiptsByEvent  |->
                       Put(acc.receiptsByEvent, lastShownEventId,
                           GetOrEmpty(acc.receiptsByEvent, lastShownEventId) \o newReceipts),
                   receiptsByUserId |->
                       RecordReceipts(acc.receiptsByUserId, newReceipts, lastShownEventId, 1),
                   threw |-> FALSE ]

RECURSIVE FirstPass(_, _, _)
FirstPass(p, i, acc) ==
    IF i > Len(p.events) \/ acc.threw THEN acc
    ELSE FirstPass(p, i + 1, FoldEvent(acc, p.events[i], p))

\* the second loop left out: nothing of the previous render is recovered
FallbackPass_Skipped(prev, k, acc) == acc

\* the second loop with the outer lastShownEventId in place of the stored one
RECURSIVE FallbackPass_OuterId(_, _, _)
FallbackPass_OuterId(prev, k, acc) ==
    IF k > Len(prev) THEN acc
    ELSE IF prev[k].userId \in UserIdsOf(acc.receiptsByUserId)
    THEN FallbackPass_OuterId(prev, k + 1, acc)
    ELSE FallbackPass_OuterId(prev, k + 1,
             [acc EXCEPT
                 !.receiptsByEvent =
                     Put(@, acc.lastShownEventId,
                         Append(GetOrEmpty(@, acc.lastShownEventId), prev[k].receipt)),
                 !.receiptsByUserId =
                     SetUser(@, [userId |-> prev[k].userId,
                                 lastShownEventId |-> acc.lastShownEventId,
                                 receipt |-> prev[k].receipt])])

\* the second loop putting the receipt back in the event's list only
RECURSIVE FallbackPass_NotRecorded(_, _, _)
FallbackPass_NotRecorded(prev, k, acc) ==
    IF k > Len(prev) THEN acc
    ELSE IF prev[k].userId \in UserIdsOf(acc.receiptsByUserId)
    THEN FallbackPass_NotRecorded(prev, k + 1, acc)
    ELSE FallbackPass_NotRecorded(prev, k + 1,
             [acc EXCEPT
                 !.receiptsByEvent =
                     Put(@, prev[k].lastShownEventId,
                         Append(GetOrEmpty(@, prev[k].lastShownEventId), prev[k].receipt))])

\* the second loop recording the user without putting the receipt in a list
RECURSIVE FallbackPass_CacheOnly(_, _, _)
FallbackPass_CacheOnly(prev, k, acc) ==
    IF k > Len(prev) THEN acc
    ELSE IF prev[k].userId \in UserIdsOf(acc.receiptsByUserId)
    THEN FallbackPass_CacheOnly(prev, k + 1, acc)
    ELSE FallbackPass_CacheOnly(prev, k + 1,
             [acc EXCEPT
                 !.receiptsByUserId =
                     SetUser(@, [userId |-> prev[k].userId,
                                 lastShownEventId |-> prev[k].lastShownEventId,
                                 receipt |-> prev[k].receipt])])

(***************************************************************************)
(* Second loop: users of the previous render's map that the first loop     *)
(* did not record are put back with their previous event id and receipt.   *)
(***************************************************************************)
RECURSIVE FallbackPass(_, _, _)
FallbackPass(prev, k, acc) ==
    IF k > Len(prev) THEN acc
    ELSE IF prev[k].userId \in UserIdsOf(acc.receiptsByUserId)
    THEN FallbackPass(prev, k + 1, acc)
    ELSE FallbackPass(prev, k + 1,
             [acc EXCEPT
                 !.receiptsByEvent =
                     Put(@, prev[k].lastShownEventId,
                         Append(GetOrEmpty(@, prev[k].lastShownEventId), prev[k].receipt)),
                 !.receiptsByUserId =
                     SetUser(@, [userId |-> prev[k].userId,
                                 lastShownEventId |-> prev[k].lastShownEventId,
                                 receipt |-> prev[k].receipt])])

(***************************************************************************)
(* Third loop: each list is sorted by descending ts; Array.prototype.sort  *)
(* is stable, so equal ts keep their order.                                *)
(***************************************************************************)
RECURSIVE InsertByTs(_, _)
InsertByTs(sorted, r) ==
    IF sorted = <<>> THEN <<r>>
    ELSE IF sorted[Len(sorted)].ts >= r.ts THEN Append(sorted, r)
    ELSE Append(InsertByTs(SubSeq(sorted, 1, Len(sorted) - 1), r), sorted[Len(sorted)])

RECURSIVE SortFrom(_, _, _)
SortFrom(list, k, sorted) ==
    IF k > Len(list) THEN sorted
    ELSE SortFrom(list, k + 1, InsertByTs(sorted, list[k]))

SortReceipts(list) == SortFrom(list, 1, <<>>)

(***************************************************************************)
(* _getReadReceiptsByShownEvent as a whole, for props p and the previous   *)
(* this._readReceiptsByUserId.  Returns what it returns and what it leaves *)
(* in this._readReceiptsByUserId; when it throws, nothing is assigned.     *)
(***************************************************************************)
getReadReceiptsByShownEvent(p, prev) ==
    LET first == FirstPass(p, 1, [ lastShownEventId |-> None,
                                   receiptsByEvent  |-> EmptyMap,
                                   receiptsByUserId |-> <<>>,
                                   threw |-> FALSE ])
        merged == FallbackPass(prev, 1, first)
    IN  IF first.threw
        THEN [ threw |-> TRUE, receiptsByEvent |-> EmptyMap, receiptsByUserId |-> prev ]
        ELSE [ threw |-> FALSE,
               receiptsByEvent |->
                   [e \in DOMAIN merged.receiptsByEvent |->
                       SortReceipts(merged.receiptsByEvent[e])],
               receiptsByUserId |-> merged.receiptsByUserId ]

\* the per-user cache emptied by a render that shows no receipts
getEventTiles_ForgettingCache(p, prev) ==
    IF p.showReadReceipts
    THEN getReadReceiptsByShownEvent(p, prev)
    ELSE [ threw |-> FALSE, receiptsByEvent |-> EmptyMap, receiptsByUserId |-> <<>> ]

(***************************************************************************)
(* The part of _getEventTiles that touches the receipt state: the map is   *)
(* reset, and recomputed when props.showReadReceipts is set.               *)
(***************************************************************************)
getEventTiles(p, prev) ==
    IF p.showReadReceipts
    THEN getReadReceiptsByShownEvent(p, prev)
    ELSE [ threw |-> FALSE, receiptsByEvent |-> EmptyMap, receiptsByUserId |-> prev ]

(***************************************************************************)
(* The array _getEventTiles returns.  A tile is the <li> _getTilesForEvent *)
(* builds: the PostEventTile's props of interest, and the tiles of the     *)
(* event's direct sub-events nested in it.  A read-marker node is the <li> *)
(* _readMarkerForEvent returns; hr tells whether it holds the <hr>.        *)
(***************************************************************************)
\* this.props.events, as event objects
EventsOf(p) == [i \in 1..Len(p.events) |-> MatrixEvent(p.events[i])]

\* null, where _readMarkerForEvent returns no node
NoNode == [kind |-> "none"]

isSentState(s) == s = NoStatus \/ s = "sent"

\* _getNextEventInfo(arr, i), with i counted from 1
getNextEventInfo(arr, i, p) ==
    LET later == { j \in (i + 1)..Len(arr) : shouldShowEvent(arr[j], p) }
    IN  [ nextEvent |-> IF i < Len(arr) THEN arr[i + 1] ELSE NoEvent,
          nextTile  |-> IF later = {} THEN NoEvent
                        ELSE arr[CHOOSE j \in later : \A j2 \in later : j <= j2] ]

\* the flag with the sender test left out
isLastSuccessful_AnySender(mxEv, nextEvent, nextEventWithTile, p) ==
    LET isSent == isSentState(mxEv.status)
        hasNextEvent == nextEvent.id # None /\ shouldShowEvent(nextEvent, p)
        byNext == \/ ~hasNextEvent /\ isSent
                  \/ hasNextEvent /\ isSent /\ ~isSentState(nextEvent.status)
        superseded == /\ nextEventWithTile.id # None
                      /\ nextEventWithTile.id # nextEvent.id
                      /\ isSentState(nextEventWithTile.status)
    IN  byNext /\ ~superseded

\* the lastSuccessful prop _getTilesForEvent computes (lines 596-618)
isLastSuccessful(mxEv, nextEvent, nextEventWithTile, p) ==
    LET isSent == isSentState(mxEv.status)
        hasNextEvent == nextEvent.id # None /\ shouldShowEvent(nextEvent, p)
        byNext == \/ ~hasNextEvent /\ isSent
                  \/ hasNextEvent /\ isSent /\ ~isSentState(nextEvent.status)
        superseded == /\ nextEventWithTile.id # None
                      /\ nextEventWithTile.id # nextEvent.id
                      /\ isSentState(nextEventWithTile.status)
    IN  byNext /\ ~superseded /\ mxEv.getSender = MyUserId

\* every reply that comes later in the room, whatever event it replies to
directSubevents_AnyLater(arr, mxEv) ==
    SelectSeq(arr, LAMBDA e : e.inReplyTo # None /\ e.id > mxEv.id)

\* the events of the log that reply to mxEv
directSubevents(arr, mxEv) ==
    SelectSeq(arr, LAMBDA e : e.inReplyTo # None /\ e.inReplyTo = mxEv.id)

\* sub-events given their parent's level
SubLevel_Same(level) == level

\* the level a sub-event's tile is given
SubLevel(level) == level + 1

\* _getTilesForEvent; isGrouped is always false
RECURSIVE getTilesForEvent(_, _, _, _, _, _, _)
RECURSIVE SubTiles(_, _, _, _)
getTilesForEvent(prevEvent, mxEv, last, nextEvent, nextEventWithTile, level, p) ==
    << [ kind           |-> "tile",
         eventId        |-> mxEv.id,
         level          |-> level,
         continuation   |-> shouldFormContinuation(prevEvent, mxEv),
         last           |-> last,
         lastSuccessful |-> isLastSuccessful(mxEv, nextEvent, nextEventWithTile, p),
         subTiles       |-> SubTiles(directSubevents(EventsOf(p), mxEv), 1,
                                     SubLevel(level), p) ] >>

\* directSubevents.map(e => this._getTilesForEvent(null, e, null, false, null, null, level + 1))
SubTiles(subs, k, level, p) ==
    IF k > Len(subs) THEN <<>>
    ELSE getTilesForEvent(NoEvent, subs[k], FALSE, NoEvent, NoEvent, level, p)
         \o SubTiles(subs, k + 1, level, p)

\* the <hr> drawn whenever props.readMarkerVisible, wherever the marker is
readMarkerForEvent_AnyPosition(eventId, isLastEvent, p) ==
    IF p.readMarkerEventId = eventId
    THEN [kind |-> "readMarker", eventId |-> eventId, hr |-> p.readMarkerVisible]
    ELSE IF \E k \in 1..Len(ghostReadMarkers) : ghostReadMarkers[k] = eventId
    THEN [kind |-> "ghost", eventId |-> eventId, hr |-> TRUE]
    ELSE NoNode

\* the ghost list consulted before the current marker id
readMarkerForEvent_GhostFirst(eventId, isLastEvent, p) ==
    LET visible == ~isLastEvent /\ p.readMarkerVisible
    IN  IF \E k \in 1..Len(ghostReadMarkers) : ghostReadMarkers[k] = eventId
        THEN [kind |-> "ghost", eventId |-> eventId, hr |-> TRUE]
        ELSE IF p.readMarkerEventId = eventId
        THEN [kind |-> "readMarker", eventId |-> eventId, hr |-> visible]
        ELSE NoNode

\* _readMarkerForEvent
readMarkerForEvent(eventId, isLastEvent, p) ==
    LET visible == ~isLastEvent /\ p.readMarkerVisible
    IN  IF p.readMarkerEventId = eventId
        THEN [kind |-> "readMarker", eventId |-> eventId, hr |-> visible]
        ELSE IF \E k \in 1..Len(ghostReadMarkers) : ghostReadMarkers[k] = eventId
        THEN [kind |-> "ghost", eventId |-> eventId, hr |-> TRUE]
        ELSE NoNode

\* the backward scan of _getEventTiles: the last shown event, and the index (from 1;
\* 0 when there is none) of the last shown event that is not a local echo
lastShownEvent(p) ==
    LET arr == EventsOf(p)
        shown == { i \in 1..Len(arr) : shouldShowEvent(arr[i], p) }
    IN  IF shown = {} THEN NoEvent
        ELSE arr[CHOOSE i \in shown : \A j \in shown : j <= i]

lastShownNonLocalEchoIndex(p) ==
    LET arr == EventsOf(p)
        sent == { i \in 1..Len(arr) : shouldShowEvent(arr[i], p) /\ arr[i].status = NoStatus }
    IN  IF sent = {} THEN 0
        ELSE CHOOSE i \in sent : \A j \in sent : j <= i

\* the previous event of the log, shown or not
NextPrevEvent_Adjacent(prevEvent, mxEv, wantTile) == mxEv

\* the event the next tile's continuation is tested against
NextPrevEvent(prevEvent, mxEv, wantTile) == IF wantTile THEN mxEv ELSE prevEvent

\* the forward loop of _getEventTiles from index i on, prevEvent being the last event shown
RECURSIVE EventTilesFrom(_, _, _)
EventTilesFrom(p, i, prevEvent) ==
    LET arr == EventsOf(p)
    IN  IF i > Len(arr) THEN <<>>
        ELSE LET mxEv == arr[i]
                 last == (mxEv.id = lastShownEvent(p).id)
                 info == getNextEventInfo(arr, i, p)
                 wantTile == shouldShowEvent(mxEv, p)
                 readMarker == readMarkerForEvent(mxEv.id,
                                                  i >= lastShownNonLocalEchoIndex(p), p)
             IN  (IF wantTile
                  THEN getTilesForEvent(prevEvent, mxEv, last, info.nextEvent,
                                        info.nextTile, 0, p)
                  ELSE <<>>)
                 \o (IF readMarker.kind # "none" THEN <<readMarker>> ELSE <<>>)
                 \o EventTilesFrom(p, i + 1, NextPrevEvent(prevEvent, mxEv, wantTile))

\* the marker and ghost nodes pushed after all the tiles
getEventTilesRet_MarkersLast(p) ==
    SelectSeq(EventTilesFrom(p, 1, NoEvent), LAMBDA n : n.kind = "tile")
    \o SelectSeq(EventTilesFrom(p, 1, NoEvent), LAMBDA n : n.kind # "tile")

\* the loop entered at the second event
getEventTilesRet_FromSecond(p) == EventTilesFrom(p, 2, NoEvent)

\* what _getEventTiles returns
getEventTilesRet(p) == EventTilesFrom(p, 1, NoEvent)

(***************************************************************************)
(* The ghost <li> nodes a render emits: _getEventTiles asks                *)
(* _readMarkerForEvent for every event of the log, and an id that is not   *)
(* the current marker's and is in state.ghostReadMarkers gets a ghost.     *)
(***************************************************************************)
GhostNodeIds(p) ==
    { e \in { p.events[i] : i \in 1..Len(p.events) } :
        /\ e # p.readMarkerEventId
        /\ \E k \in 1..Len(ghostReadMarkers) : ghostReadMarkers[k] = e }

AttachedGhostNodes == { e \in DOMAIN ghostNodes : ghostNodes[e].attached }

(***************************************************************************)
(* React commits the render: a ghost <hr> that was not in the DOM is       *)
(* created and handed to _collectGhostReadMarker, which schedules a frame  *)
(* callback for it; one that is no longer rendered leaves the DOM (its ref *)
(* is called with null, which does nothing) and lives on only while a      *)
(* scheduled callback holds it.  A ghost rendered again after its node     *)
(* left the DOM gets a new node and a new callback: the older node stays   *)
(* out of the DOM, held only by its own callback, which is still queued    *)
(* ahead of the new one.                                                   *)
(***************************************************************************)
collectGhostReadMarker(p) ==
    LET want == GhostNodeIds(p)
        held == (DOMAIN ghostNodes \cap BagToSet(frames)) \ want
    IN  /\ ghostNodes' =
              [e \in want \cup held |->
                  IF e \in held THEN [ghostNodes[e] EXCEPT !.attached = FALSE]
                  ELSE IF e \in AttachedGhostNodes THEN ghostNodes[e]
                  ELSE [style |-> "start", attached |-> TRUE]]
        /\ frames' = frames (+) SetToBag(want \ AttachedGhostNodes)

\* unmounting takes every node out of the DOM
DetachGhostNodes ==
    ghostNodes' = [e \in DOMAIN ghostNodes \cap BagToSet(frames) |->
                      [ghostNodes[e] EXCEPT !.attached = FALSE]]

\* render() throws: _getReadReceiptsByShownEvent iterates the null it was given
RenderThrows(p) == getEventTiles(p, readReceiptsByUserId).threw

(***************************************************************************)
(* render().  When it throws, this._readReceiptsByEvent has been reset,    *)
(* this._readReceiptsByUserId has not been assigned, nothing is committed  *)
(* to the DOM and React takes the panel's nodes out of it (there are none  *)
(* at the first render).                                                   *)
(***************************************************************************)
Render(p) ==
    LET r == getEventTiles(p, readReceiptsByUserId)
    IN  /\ readReceiptsByEvent' = r.receiptsByEvent
        /\ readReceiptsByUserId' = r.receiptsByUserId
        /\ IF r.threw
           THEN DetachGhostNodes /\ frames' = frames
           ELSE collectGhostReadMarker(p)

\* the test without prevProps.readMarkerVisible
MarkerMoved_AnyVisibility(prevProps, p) ==
    p.readMarkerEventId # prevProps.readMarkerEventId

\* the test reading the new props' readMarkerVisible
MarkerMoved_NewVisibility(prevProps, p) ==
    p.readMarkerVisible /\ p.readMarkerEventId # prevProps.readMarkerEventId

(***************************************************************************)
(* componentDidUpdate: the previous marker id becomes a ghost when the     *)
(* marker id changed and the marker was visible before.  It runs when the  *)
(* render has been committed, and push() changes the committed state's own *)
(* array.                                                                  *)
(***************************************************************************)
MarkerMoved(prevProps, p) ==
    prevProps.readMarkerVisible /\ p.readMarkerEventId # prevProps.readMarkerEventId

componentDidUpdate(prevProps, p) ==
    IF MarkerMoved(prevProps, p)
    THEN /\ ghostReadMarkers' = Append(ghostReadMarkers, prevProps.readMarkerEventId)
         /\ committedGhostReadMarkers' = ghostReadMarkers'
         /\ pendingRerender' = TRUE
    ELSE /\ ghostReadMarkers' = ghostReadMarkers
         /\ committedGhostReadMarkers' = ghostReadMarkers
         /\ pendingRerender' = FALSE

\* the finished ghost taken to be the oldest one, whatever id the event carries
WithoutGhost_Oldest(ghosts, finishedEventId) ==
    IF ghosts = <<>> THEN ghosts ELSE Tail(ghosts)

(***************************************************************************)
(* _onGhostTransitionEnd: filter the finished event id out.                *)
(***************************************************************************)
WithoutGhost(ghosts, finishedEventId) ==
    SelectSeq(ghosts, LAMBDA eid : eid # finishedEventId)

(***************************************************************************)
(* The steps of one instance.  A setState() is followed by its re-render   *)
(* before anything else runs (pendingRerender).                            *)
(***************************************************************************)
\* first render, then componentDidMount; a render that throws leaves the panel unmounted
Mount ==
    /\ phase = "constructed"
    /\ phase' = IF RenderThrows(props) THEN phase ELSE "mounted"
    /\ isMounted' = IF RenderThrows(props) THEN isMounted ELSE TRUE
    /\ Render(props)
    /\ UNCHANGED <<props, ghostReadMarkers, committedGhostReadMarkers, showHiddenEventsInTimeline,
                   pendingRerender, ignoredUsers, receiptPos, mxEvents, out>>

(***************************************************************************)
(* What follows the render of a mounted panel with props p.  The render   *)
(* is committed and componentDidUpdate runs.  When the render threw,       *)
(* nothing is committed and React unmounts the panel: it puts the props    *)
(* and the state it last committed back on the instance, and               *)
(* componentWillUnmount clears _isMounted.                                 *)
(***************************************************************************)
AfterRender(prevProps, p) ==
    IF RenderThrows(p)
    THEN /\ phase' = "unmounted"
         /\ isMounted' = FALSE
         /\ props' = prevProps
         /\ ghostReadMarkers' = committedGhostReadMarkers
         /\ committedGhostReadMarkers' = committedGhostReadMarkers
         /\ pendingRerender' = FALSE
    ELSE /\ phase' = phase
         /\ isMounted' = isMounted
         /\ props' = p
         /\ componentDidUpdate(prevProps, p)

\* the parent renders the panel with props p: render, then componentDidUpdate
UpdateProps(p) ==
    /\ phase = "mounted"
    /\ ~pendingRerender
    /\ Render(p)
    /\ AfterRender(props, p)
    /\ UNCHANGED <<showHiddenEventsInTimeline, ignoredUsers, receiptPos, mxEvents, out>>

\* the render a setState() causes: props are the same, componentDidUpdate runs again
Rerender ==
    /\ phase = "mounted"
    /\ pendingRerender
    /\ Render(props)
    /\ AfterRender(props, props)
    /\ UNCHANGED <<showHiddenEventsInTimeline, ignoredUsers, receiptPos, mxEvents, out>>

\* a ghost's transitionend event, carrying the node's data-eventid: setState() with
\* a new array, which React commits with the re-render
onGhostTransitionEnd(finishedEventId) ==
    /\ phase = "mounted"
    /\ ~pendingRerender
    /\ ghostReadMarkers' = WithoutGhost(ghostReadMarkers, finishedEventId)
    /\ committedGhostReadMarkers' = committedGhostReadMarkers
    /\ pendingRerender' = TRUE
    /\ UNCHANGED <<phase, isMounted, props, readReceiptsByEvent, readReceiptsByUserId,
                   showHiddenEventsInTimeline, ignoredUsers, receiptPos,
                   mxEvents, ghostNodes, frames, out>>

\* an unmount that empties the two caches
componentWillUnmount_Clearing ==
    /\ phase = "mounted"
    /\ ~pendingRerender
    /\ phase' = "unmounted"
    /\ isMounted' = FALSE
    /\ ghostReadMarkers' = <<>>
    /\ committedGhostReadMarkers' = <<>>
    /\ readReceiptsByUserId' = <<>>
    /\ DetachGhostNodes
    /\ UNCHANGED <<props, readReceiptsByEvent, showHiddenEventsInTimeline,
                   pendingRerender, ignoredUsers, receiptPos, mxEvents, frames, out>>

componentWillUnmount ==
    /\ phase = "mounted"
    /\ ~pendingRerender
    /\ phase' = "unmounted"
    /\ isMounted' = FALSE
    /\ DetachGhostNodes
    /\ UNCHANGED <<props, ghostReadMarkers, committedGhostReadMarkers, readReceiptsByEvent, readReceiptsByUserId,
                   showHiddenEventsInTimeline, pendingRerender, ignoredUsers, receiptPos,
                   mxEvents, frames, out>>

\* the oldest queued frame callback of the ghost nodes of event e: it sets its node's
\* width and opacity, whatever has happened to the panel since.  The newest node's
\* callback is the last of them; the ones before it style nodes nothing else holds.
AnimationFrame(e) ==
    /\ ~pendingRerender
    /\ BagIn(e, frames)
    /\ frames' = frames (-) SetToBag({e})
    /\ ghostNodes' = IF CopiesIn(e, frames) = 1 /\ e \in DOMAIN ghostNodes
                     THEN [ghostNodes EXCEPT ![e].style = "shrunk"]
                     ELSE ghostNodes
    /\ UNCHANGED <<phase, isMounted, props, ghostReadMarkers, committedGhostReadMarkers, readReceiptsByEvent,
                   readReceiptsByUserId, showHiddenEventsInTimeline, pendingRerender,
                   ignoredUsers, receiptPos, mxEvents, out>>

\* a transitionend event that reaches _onGhostTransitionEnd after the unmount: the
\* handler calls setState(), which React drops for an unmounted component
LateGhostTransitionEnd(finishedEventId) ==
    /\ phase = "unmounted"
    /\ UNCHANGED vars

\* the environment: the ignore list changes
SetIgnored(S) ==
    /\ ~pendingRerender
    /\ phase # "unmounted"
    /\ S # ignoredUsers
    /\ ignoredUsers' = S
    /\ UNCHANGED <<phase, isMounted, props, ghostReadMarkers, committedGhostReadMarkers, readReceiptsByEvent,
                   readReceiptsByUserId, showHiddenEventsInTimeline, pendingRerender,
                   receiptPos, mxEvents, ghostNodes, frames, out>>

\* the environment: a user's read receipt moves to another event (or goes away)
MoveReceipt(u, e) ==
    /\ ~pendingRerender
    /\ phase # "unmounted"
    /\ receiptPos[u] # e
    /\ receiptPos' = [receiptPos EXCEPT ![u] = e]
    /\ UNCHANGED <<phase, isMounted, props, ghostReadMarkers, committedGhostReadMarkers, readReceiptsByEvent,
                   readReceiptsByUserId, showHiddenEventsInTimeline, pendingRerender,
                   ignoredUsers, mxEvents, ghostNodes, frames, out>>

OtherUserSet == { OtherUsers[k] : k \in 1..Len(OtherUsers) }

\* the frame callbacks queued for event e once the parent has passed props p and the
\* re-render its componentDidUpdate asks for has run
QueuedAfter(p, e) ==
    CopiesIn(e, frames)
        + (IF \/ e \in GhostNodeIds(p) \ AttachedGhostNodes
              \/ /\ MarkerMoved(props, p)
                 /\ e = props.readMarkerEventId
                 /\ \E i \in 1..Len(p.events) : p.events[i] = e
           THEN 1 ELSE 0)

\* the parent passes props p only while the panel stays within the bounds:
\* at most MaxGhosts ghosts, at most MaxFrames queued callbacks per event
WithinBounds(p) ==
    /\ MarkerMoved(props, p) => Len(ghostReadMarkers) < MaxGhosts
    /\ \A i \in 1..Len(p.events) : QueuedAfter(p, p.events[i]) <= MaxFrames

\* the parent passes a new event list
NewEvents ==
    \E log \in Logs :
        LET p == [props EXCEPT !.events = log]
        IN  WithinBounds(p) /\ UpdateProps(p)

(***************************************************************************)
(* Specification Spec: the read marker moves, ghosts come and go, the log  *)
(* changes, the frame callbacks of the ghost nodes run at any time after   *)
(* they were scheduled; receipts are shown, from a room whose receipts do  *)
(* not move.                                                               *)
(***************************************************************************)
\* the values props.readMarkerEventId takes
MarkerIds == {None, 1, 2}

MarkerProps ==
    [ events : Logs, highlightedEventId : {None}, room : {TRUE},
      showReadReceipts : {TRUE},
      readMarkerEventId : MarkerIds, readMarkerVisible : BOOLEAN ]

ConstructedWith(p) ==
    /\ phase = "constructed"
    /\ isMounted = FALSE
    /\ props = p
    /\ ghostReadMarkers = <<>>
    /\ committedGhostReadMarkers = <<>>
    /\ readReceiptsByEvent = EmptyMap
    /\ readReceiptsByUserId = <<>>
    /\ pendingRerender = FALSE
    /\ ghostNodes = <<>>
    /\ frames = EmptyBag
    /\ out = <<>>

Init ==
    /\ \E p \in MarkerProps : ConstructedWith(p)
    /\ showHiddenEventsInTimeline = FALSE
    /\ ignoredUsers = {}
    /\ receiptPos = [u \in OtherUserSet |-> IF u = OtherUsers[1] THEN 2 ELSE None]
    /\ mxEvents = Timeline

\* the parent passes a new read marker (or the same one again)
MoveMarker ==
    \E id \in MarkerIds, visible \in BOOLEAN :
        LET p == [props EXCEPT !.readMarkerEventId = id, !.readMarkerVisible = visible]
        IN  WithinBounds(p) /\ UpdateProps(p)

GhostTransitionEnd == \E e \in MarkerIds \ {None} : onGhostTransitionEnd(e)

\* the browser runs a queued frame callback
FrameCallback == \E e \in MarkerIds \ {None} : AnimationFrame(e)

Next ==
    \/ Mount
    \/ MoveMarker
    \/ NewEvents
    \/ Rerender
    \/ GhostTransitionEnd
    \/ FrameCallback
    \/ componentWillUnmount

Spec == Init /\ [][Next]_vars

(***************************************************************************)
(* Specification SpecTeardown: Spec's panel with its log fixed, and        *)
(* transitionend events arriving after the unmount too.                    *)
(***************************************************************************)
LateTransitionEnd == \E e \in MarkerIds \ {None} : LateGhostTransitionEnd(e)

NextTeardown ==
    \/ Mount
    \/ MoveMarker
    \/ Rerender
    \/ GhostTransitionEnd
    \/ FrameCallback
    \/ componentWillUnmount
    \/ LateTransitionEnd

SpecTeardown == Init /\ [][NextTeardown]_vars

(***************************************************************************)
(* Specification SpecFilter: _shouldShowEvent applied to one event, for    *)
(* every combination of what it reads: the event's sender (missing, not    *)
(* ignored, ignored), type, reply relation, redaction, tile and            *)
(* shouldHideEvent() verdict, the ignore list, the debug setting and the   *)
(* highlighted event id.                                                   *)
(***************************************************************************)
FilterEvents ==
    { [ id            |-> 1,
        sender        |-> u,
        senderName    |-> u,
        senderAvatar  |-> u,
        getSender     |-> IF u = NoUser THEN "u1" ELSE u,
        type          |-> t,
        redacted      |-> red,
        inReplyTo     |-> rel,
        status        |-> NoStatus,
        ts            |-> 0,
        haveTile      |-> tile,
        hideByDefault |-> hide ] :
      u \in {NoUser, "u1", "u2"},
      t \in {"m.room.message", "m.sticker", "m.room.member"},
      red \in BOOLEAN, rel \in {None, 2}, tile \in BOOLEAN, hide \in BOOLEAN }

FilterProps ==
    [ events : {<<1>>}, highlightedEventId : {None, 1, 2}, room : {TRUE},
      showReadReceipts : {FALSE},
      readMarkerEventId : {None}, readMarkerVisible : {FALSE} ]

InitFilter ==
    /\ \E p \in FilterProps : ConstructedWith(p)
    /\ showHiddenEventsInTimeline \in BOOLEAN
    /\ ignoredUsers \in SUBSET IgnorableUsers
    /\ receiptPos = [u \in OtherUserSet |-> None]
    /\ \E ev \in FilterEvents : mxEvents = <<ev>>

\* the call this._shouldShowEvent(mxEv)
ApplyShouldShowEvent ==
    /\ out = <<>>
    /\ out' = << shouldShowEvent(MatrixEvent(props.events[1]), props) >>
    /\ UNCHANGED <<phase, isMounted, props, ghostReadMarkers, committedGhostReadMarkers, readReceiptsByEvent,
                   readReceiptsByUserId, showHiddenEventsInTimeline, pendingRerender,
                   ignoredUsers, receiptPos, mxEvents, ghostNodes, frames>>

NextFilter == ApplyShouldShowEvent

SpecFilter == InitFilter /\ [][NextFilter]_vars

(***************************************************************************)
(* Specification SpecContinuation: shouldFormContinuation applied to a     *)
(* pair of events.  The first event of the room is prevEvent (null when    *)
(* the log holds the second event only), the second is mxEvent.            *)
(***************************************************************************)
PairTypes == {"m.room.message", "m.sticker", "m.room.member", "m.room.topic"}

PrevEvents ==
    { [ id |-> 1, sender |-> u, senderName |-> "n1", senderAvatar |-> "a1",
        getSender |-> "u1", type |-> t, redacted |-> red, inReplyTo |-> None,
        status |-> NoStatus, ts |-> time, haveTile |-> tile, hideByDefault |-> FALSE ] :
      u \in {NoUser, "u1"}, t \in PairTypes, red \in BOOLEAN,
      time \in {0, 400000}, tile \in BOOLEAN }

CurrEvents ==
    { [ id |-> 2, sender |-> u, senderName |-> n, senderAvatar |-> a,
        getSender |-> IF u = NoUser THEN "u1" ELSE u, type |-> t, redacted |-> red,
        inReplyTo |-> None, status |-> NoStatus, ts |-> time, haveTile |-> TRUE,
        hideByDefault |-> FALSE ] :
      u \in {NoUser, "u1", "u2"}, n \in {"n1", "n2"}, a \in {"a1", "a2"},
      t \in PairTypes, red \in BOOLEAN,
      time \in {0, 60000, 300000, 300001, 400000} }

PairProps ==
    [ events : {<<2>>, <<1, 2>>}, highlightedEventId : {None}, room : {TRUE},
      showReadReceipts : {FALSE},
      readMarkerEventId : {None}, readMarkerVisible : {FALSE} ]

InitContinuation ==
    /\ \E p \in PairProps : ConstructedWith(p)
    /\ showHiddenEventsInTimeline = FALSE
    /\ ignoredUsers = {}
    /\ receiptPos = [u \in OtherUserSet |-> None]
    /\ \E prevEvent \in PrevEvents, mxEvent \in CurrEvents : mxEvents = <<prevEvent, mxEvent>>

\* the arguments of the call
PairPrev == IF Len(props.events) = 2 THEN MatrixEvent(props.events[1]) ELSE NoEvent
PairCurr == MatrixEvent(props.events[Len(props.events)])

\* the call shouldFormContinuation(prevEvent, mxEvent)
ApplyShouldFormContinuation ==
    /\ out = <<>>
    /\ out' = << shouldFormContinuation(PairPrev, PairCurr) >>
    /\ UNCHANGED <<phase, isMounted, props, ghostReadMarkers, committedGhostReadMarkers, readReceiptsByEvent,
                   readReceiptsByUserId, showHiddenEventsInTimeline, pendingRerender,
                   ignoredUsers, receiptPos, mxEvents, ghostNodes, frames>>

NextContinuation == ApplyShouldFormContinuation

SpecContinuation == InitContinuation /\ [][NextContinuation]_vars

(***************************************************************************)
(* Specification SpecDelivery: _getEventTiles applied to a log of up to    *)
(* MaxLogLen message events, each sent by the viewer or by u1, with no     *)
(* send status, status 'sent' or status 'not_sent', and hidden by          *)
(* shouldHideEvent() or not.                                               *)
(***************************************************************************)
DeliveryChoices ==
    [ who : {MyUserId, "u1"}, status : {NoStatus, "sent", "not_sent"}, hide : BOOLEAN ]

DeliveryEvent(i, c) ==
    [ id |-> i, sender |-> c.who, senderName |-> c.who, senderAvatar |-> c.who,
      getSender |-> c.who, type |-> "m.room.message", redacted |-> FALSE,
      inReplyTo |-> None, status |-> c.status, ts |-> i * 60000, haveTile |-> TRUE,
      hideByDefault |-> c.hide ]

\* props showing the whole room as the log
WholeLog(n) ==
    [ events |-> [i \in 1..n |-> i], highlightedEventId |-> None, room |-> TRUE,
      showReadReceipts |-> FALSE, readMarkerEventId |-> None, readMarkerVisible |-> FALSE ]

InitDelivery ==
    /\ \E n \in 1..MaxLogLen :
          /\ ConstructedWith(WholeLog(n))
          /\ \E f \in [1..n -> DeliveryChoices] :
                mxEvents = [i \in 1..n |-> DeliveryEvent(i, f[i])]
    /\ showHiddenEventsInTimeline = FALSE
    /\ ignoredUsers = {}
    /\ receiptPos = [u \in OtherUserSet |-> None]

\* the call this._getEventTiles(): the receipt caches are recomputed as in a render,
\* then the list is built; out holds the list once the call has returned, and when the
\* receipt step throws nothing is returned
ApplyGetEventTiles ==
    /\ out = <<>>
    /\ LET r == getEventTiles(props, readReceiptsByUserId)
       IN  /\ readReceiptsByEvent' = r.receiptsByEvent
           /\ readReceiptsByUserId' = r.receiptsByUserId
           /\ out' = IF r.threw THEN out ELSE << getEventTilesRet(props) >>
    /\ UNCHANGED <<phase, isMounted, props, ghostReadMarkers, committedGhostReadMarkers,
                   showHiddenEventsInTimeline, pendingRerender,
                   ignoredUsers, receiptPos, mxEvents, ghostNodes, frames>>

NextDelivery == ApplyGetEventTiles

SpecDelivery == InitDelivery /\ [][NextDelivery]_vars

(***************************************************************************)
(* Specification SpecTiles: _getEventTiles applied to a log of up to       *)
(* MaxLogLen message events 100 s apart, each sent by u1 or by u2,         *)
(* redacted or not, and a reply to the first or the second event of the    *)
(* room or to none; u2 is ignored or not.                                  *)
(***************************************************************************)
TileChoices == [ who : {"u1", "u2"}, redacted : BOOLEAN, inReplyTo : {None, 1, 2} ]

TileEvent(i, c) ==
    [ id |-> i, sender |-> c.who, senderName |-> c.who, senderAvatar |-> c.who,
      getSender |-> c.who, type |-> "m.room.message", redacted |-> c.redacted,
      inReplyTo |-> c.inReplyTo, status |-> NoStatus, ts |-> i * 100000, haveTile |-> TRUE,
      hideByDefault |-> FALSE ]

InitTiles ==
    /\ \E n \in 1..MaxLogLen :
          /\ ConstructedWith(WholeLog(n))
          /\ \E f \in [1..n -> TileChoices] :
                mxEvents = [i \in 1..n |-> TileEvent(i, f[i])]
    /\ showHiddenEventsInTimeline = FALSE
    /\ ignoredUsers \in SUBSET IgnorableUsers
    /\ receiptPos = [u \in OtherUserSet |-> None]

NextTiles == ApplyGetEventTiles

SpecTiles == InitTiles /\ [][NextTiles]_vars

(***************************************************************************)
(* Specification SpecMarkers: _getEventTiles applied by a mounted panel to *)
(* a log of up to MaxLogLen message events of u1, each a local echo        *)
(* (status 'sending') or not and hidden by shouldHideEvent() or not, with  *)
(* the read marker on any event or none, visible or not, and a ghost list  *)
(* over the first two events.                                              *)
(***************************************************************************)
MarkerChoices == [ status : {NoStatus, "sending"}, hide : BOOLEAN ]

MarkerEvent(i, c) ==
    [ id |-> i, sender |-> "u1", senderName |-> "u1", senderAvatar |-> "u1",
      getSender |-> "u1", type |-> "m.room.message", redacted |-> FALSE,
      inReplyTo |-> None, status |-> c.status, ts |-> i * 60000, haveTile |-> TRUE,
      hideByDefault |-> c.hide ]

GhostLists == { <<>>, <<1>>, <<2>>, <<1, 2>>, <<2, 1>> }

InitMarkers ==
    /\ phase = "mounted"
    /\ isMounted = TRUE
    /\ \E n \in 1..MaxLogLen :
          /\ \E id \in {None} \cup (1..MaxLogLen), visible \in BOOLEAN :
                props = [WholeLog(n) EXCEPT !.readMarkerEventId = id,
                                            !.readMarkerVisible = visible]
          /\ \E f \in [1..n -> MarkerChoices] :
                mxEvents = [i \in 1..n |-> MarkerEvent(i, f[i])]
    /\ ghostReadMarkers \in GhostLists
    /\ committedGhostReadMarkers = ghostReadMarkers
    /\ readReceiptsByEvent = EmptyMap
    /\ readReceiptsByUserId = <<>>
    /\ pendingRerender = FALSE
    /\ ghostNodes = [e \in GhostNodeIds(props) |-> [style |-> "shrunk", attached |-> TRUE]]
    /\ frames = EmptyBag
    /\ out = <<>>
    /\ showHiddenEventsInTimeline = FALSE
    /\ ignoredUsers = {}
    /\ receiptPos = [u \in OtherUserSet |-> None]

NextMarkers == ApplyGetEventTiles

SpecMarkers == InitMarkers /\ [][NextMarkers]_vars

(***************************************************************************)
(* Specification SpecNoRoom: a panel that was given a room or none (the    *)
(* notification panel has none) is mounted, is passed new logs and has     *)
(* _getReadReceiptsByShownEvent applied, for every log of the timeline,    *)
(* either debug setting and every placing of the two users' receipts.      *)
(***************************************************************************)
RoomProps ==
    [ events : Logs, highlightedEventId : {None}, room : BOOLEAN,
      showReadReceipts : {TRUE},
      readMarkerEventId : {None}, readMarkerVisible : {FALSE} ]

InitNoRoom ==
    /\ \E p \in RoomProps : ConstructedWith(p)
    /\ showHiddenEventsInTimeline \in BOOLEAN
    /\ ignoredUsers = {}
    /\ receiptPos \in [OtherUserSet -> {None} \cup EventIds]
    /\ mxEvents = Timeline

\* the call this._getReadReceiptsByShownEvent(); out holds what it returns, or that it threw
ApplyGetReadReceiptsByShownEvent ==
    /\ out = <<>>
    /\ LET r == getReadReceiptsByShownEvent(props, readReceiptsByUserId)
       IN  /\ out' = << [threw |-> r.threw, receiptsByEvent |-> r.receiptsByEvent] >>
           /\ readReceiptsByUserId' = r.receiptsByUserId
    /\ UNCHANGED <<phase, isMounted, props, ghostReadMarkers, committedGhostReadMarkers, readReceiptsByEvent,
                   showHiddenEventsInTimeline, pendingRerender,
                   ignoredUsers, receiptPos, mxEvents, ghostNodes, frames>>

NextNoRoom ==
    \/ Mount
    \/ NewEvents
    \/ ApplyGetReadReceiptsByShownEvent

SpecNoRoom == InitNoRoom /\ [][NextNoRoom]_vars

(***************************************************************************)
(* Specification SpecReceipts: the log, the ignore list, the room's        *)
(* receipts and showReadReceipts change between renders; the read marker   *)
(* stays where it is.                                                      *)
(***************************************************************************)
ReceiptProps ==
    [ events : Logs, highlightedEventId : {None}, room : {TRUE},
      showReadReceipts : BOOLEAN,
      readMarkerEventId : {None}, readMarkerVisible : {FALSE} ]

InitReceipts ==
    /\ \E p \in ReceiptProps : ConstructedWith(p)
    /\ showHiddenEventsInTimeline \in BOOLEAN
    /\ ignoredUsers = {}
    /\ receiptPos = [u \in OtherUserSet |-> None]
    /\ mxEvents = Timeline

ToggleReceipts == UpdateProps([props EXCEPT !.showReadReceipts = ~@])

IgnoreListChange == \E S \in SUBSET IgnorableUsers : SetIgnored(S)

ReceiptChange == \E u \in OtherUserSet, e \in {None} \cup EventIds : MoveReceipt(u, e)

NextReceipts ==
    \/ Mount
    \/ NewEvents
    \/ ToggleReceipts
    \/ IgnoreListChange
    \/ ReceiptChange

SpecReceipts == InitReceipts /\ [][NextReceipts]_vars

(***************************************************************************)
(* Vocabulary of the properties.                                           *)
(***************************************************************************)
Range(seq) == { seq[k] : k \in 1..Len(seq) }

Count(x, seq) == Cardinality({ k \in 1..Len(seq) : seq[k] = x })

\* the steps in which render() runs
RenderStep == Mount \/ UpdateProps(props') \/ Rerender

\* a render whose aggregation pass ran to its end
AggregationPass == RenderStep /\ props'.showReadReceipts /\ props'.room

\* the indices of log p.events that _shouldShowEvent accepts
ShownIndices(p) ==
    { i \in 1..Len(p.events) : shouldShowEvent(MatrixEvent(p.events[i]), p) }

ShownIds(p) == { p.events[i] : i \in ShownIndices(p) }

\* the index of the nearest shown event at or before index i (0: there is none)
NearestShown(p, i) ==
    IF \E j \in ShownIndices(p) : j <= i
    THEN CHOOSE j \in ShownIndices(p) :
             j <= i /\ \A j2 \in ShownIndices(p) : j2 <= i => j2 <= j
    ELSE 0

\* the users with a receipt, after filtering, on some event of the log
UsersWithReceipt(p) ==
    { r.userId : r \in UNION { Range(getReadReceiptsForEvent(p.events[i])) :
                               i \in 1..Len(p.events) } }

\* the users whose receipt the first loop attributes to some shown event
UsersResolved(p) ==
    { r.userId : r \in UNION { Range(getReadReceiptsForEvent(p.events[i])) :
                               i \in { j \in 1..Len(p.events) : NearestShown(p, j) # 0 } } }

(***************************************************************************)
(* C1 (as claimed): after a render with receipts enabled, every key of     *)
(* receiptsByEvent is the id of an event of the current log that the       *)
(* visibility filter accepts in that render.                               *)
(***************************************************************************)
C1_KeysAreShown ==
    [][AggregationPass => DOMAIN readReceiptsByEvent' \subseteq ShownIds(props')]_vars

(***************************************************************************)
(* C2: the set of users of the per-user cache never shrinks, whatever      *)
(* step is taken, and no user occurs in it twice.                          *)
(***************************************************************************)
C2_UsersNeverShrink ==
    [][ /\ UserIdsOf(readReceiptsByUserId) \subseteq UserIdsOf(readReceiptsByUserId')
        /\ \A j, k \in 1..Len(readReceiptsByUserId') :
               readReceiptsByUserId'[j].userId = readReceiptsByUserId'[k].userId => j = k
      ]_vars

\* a render has just kept, for both users, entries that the log no longer resolves
C2_Witness ==
    /\ phase = "mounted"
    /\ props.showReadReceipts
    /\ Len(readReceiptsByUserId) = 2
    /\ props.events = <<>>

(***************************************************************************)
(* C3: fallback recovery.  If the cache maps U to {E, R}, and in an        *)
(* aggregation pass no event of the log has a receipt of U and E is not in *)
(* the log, the cache maps U to {E, R} after the pass.                     *)
(***************************************************************************)
C3_FallbackRecovery ==
    [][AggregationPass =>
        \A k \in 1..Len(readReceiptsByUserId) :
            LET entry == readReceiptsByUserId[k]
            IN  (/\ entry.userId \notin UsersWithReceipt(props')
                 /\ entry.lastShownEventId \notin Range(props'.events))
                => /\ entry.userId \in UserIdsOf(readReceiptsByUserId')
                   /\ EntryOf(readReceiptsByUserId', entry.userId) = entry
      ]_vars

\* U = u1 was recorded on event 1; the log now holds another, shown event and U
\* has no receipt anywhere; the entry is still the one recorded on event 1
C3_Witness ==
    /\ phase = "mounted"
    /\ props.showReadReceipts
    /\ props.events # <<>>
    /\ ShownIds(props) # {}
    /\ \E k \in 1..Len(readReceiptsByUserId) :
          /\ readReceiptsByUserId[k].userId \notin UsersWithReceipt(props)
          /\ readReceiptsByUserId[k].lastShownEventId \notin Range(props.events)
          /\ readReceiptsByUserId[k].lastShownEventId \in DOMAIN readReceiptsByEvent

(***************************************************************************)
(* C4: receipt folding.  After an aggregation pass, the receipts (after    *)
(* filtering) of every event of the log are in the list of the nearest     *)
(* shown event at or before it; each list holds those receipts and the     *)
(* ones recovered from the previous cache and nothing else; a user whose   *)
(* only receipts are on events before the first shown event is not         *)
(* recorded by the pass.                                                   *)
(***************************************************************************)
RECURSIVE SumLen(_, _, _)
\* how many receipts the events folded onto the shown event at index s carry
SumLen(p, s, i) ==
    IF i > Len(p.events) THEN 0
    ELSE (IF NearestShown(p, i) = s
          THEN Len(getReadReceiptsForEvent(p.events[i])) ELSE 0) + SumLen(p, s, i + 1)

\* how many users of the previous cache the pass recovers onto event id e
Recovered(p, prev, e) ==
    Cardinality({ k \in 1..Len(prev) :
                    /\ prev[k].userId \notin UsersResolved(p)
                    /\ prev[k].lastShownEventId = e })

C4_Folding ==
    [][AggregationPass =>
        /\ \A i \in 1..Len(props'.events) :
              LET s == NearestShown(props', i)
                  mine == getReadReceiptsForEvent(props'.events[i])
              IN  s # 0 =>
                    /\ props'.events[s] \in DOMAIN readReceiptsByEvent'
                    /\ \A r \in Range(mine) :
                          Count(r, readReceiptsByEvent'[props'.events[s]]) >= Count(r, mine)
        /\ \A s \in ShownIndices(props') :
              Len(readReceiptsByEvent'[props'.events[s]])
                  = SumLen(props', s, 1)
                    + Recovered(props', readReceiptsByUserId, props'.events[s])
        /\ \A e \in DOMAIN readReceiptsByEvent' \ ShownIds(props') :
              Len(readReceiptsByEvent'[e]) = Recovered(props', readReceiptsByUserId, e)
        /\ \A u \in UsersWithReceipt(props') \ UsersResolved(props') :
              u \notin UserIdsOf(readReceiptsByUserId)
                  => u \notin UserIdsOf(readReceiptsByUserId')
      ]_vars

\* the log is <<1, 2>> with event 1 shown and event 2 hidden, and the receipt that
\* sits on event 2 is in event 1's list
C4_Witness ==
    /\ phase = "mounted"
    /\ props.showReadReceipts
    /\ props.events = <<1, 2>>
    /\ ShownIds(props) = {1}
    /\ 1 \in DOMAIN readReceiptsByEvent
    /\ \E k \in 1..Len(readReceiptsByEvent[1]) :
          /\ readReceiptsByEvent[1][k].ts = 200
          /\ receiptPos[readReceiptsByEvent[1][k].userId] = 2

\* the other case of C4, the prefix: event 1 is hidden, event 2 is shown, a receipt sits on
\* event 1 and its user is in no list and not in the cache
C4_WitnessPrefix ==
    /\ phase = "mounted"
    /\ props.showReadReceipts
    /\ props.events = <<1, 2>>
    /\ ShownIds(props) = {2}
    /\ receiptPos[OtherUsers[1]] = 1
    /\ DOMAIN readReceiptsByEvent = {2}
    /\ readReceiptsByEvent[2] = <<>>
    /\ readReceiptsByUserId = <<>>

(***************************************************************************)
(* C5: idempotence.  From any cache, running the aggregator twice on the   *)
(* same log, visibility and receipts gives the same receiptsByEvent both   *)
(* times, and the cache after the second run is the cache after the first. *)
(***************************************************************************)
C5_Idempotent ==
    (props.showReadReceipts /\ props.room) =>
        LET first  == getReadReceiptsByShownEvent(props, readReceiptsByUserId)
            second == getReadReceiptsByShownEvent(props, first.receiptsByUserId)
        IN  /\ second.receiptsByEvent = first.receiptsByEvent
            /\ second.receiptsByUserId = first.receiptsByUserId

\* the first run changes the cache and recovers a user from the previous one
C5_Witness ==
    /\ phase = "mounted"
    /\ props.showReadReceipts
    /\ LET first == getReadReceiptsByShownEvent(props, readReceiptsByUserId)
       IN  /\ first.receiptsByUserId # readReceiptsByUserId
           /\ Len(first.receiptsByUserId) = 2
           /\ UserIdsOf(readReceiptsByUserId) \ UsersResolved(props) # {}
           /\ UsersResolved(props) # {}

(***************************************************************************)
(* C6 (as claimed): after an aggregation pass no list of receiptsByEvent   *)
(* holds a receipt of the viewer, a receipt that is not a read receipt of  *)
(* another user, or a receipt of a user who is ignored at that pass.       *)
(* (getReceiptsForEvent gives a ts that is a multiple of 100 to the read   *)
(* receipts of the other users and to no other receipt.)                   *)
(***************************************************************************)
C6_NoFilteredReceipt ==
    [][AggregationPass =>
        \A e \in DOMAIN readReceiptsByEvent' :
            \A r \in Range(readReceiptsByEvent'[e]) :
                /\ r.userId # MyUserId
                /\ r.ts % 100 = 0
                /\ r.userId \notin ignoredUsers'
      ]_vars

(***************************************************************************)
(* C7: ghostReadMarkers gains an element only in an update in which the    *)
(* read-marker event id changed and the previous readMarkerVisible was     *)
(* true; that update appends the previous marker id once and nothing else; *)
(* the re-render that follows a setState() adds nothing.                   *)
(***************************************************************************)
GainsGhost ==
    \E x \in Range(ghostReadMarkers') :
        Count(x, ghostReadMarkers') > Count(x, ghostReadMarkers)

C7_GhostGain ==
    [][ /\ GainsGhost =>
              /\ props'.readMarkerEventId # props.readMarkerEventId
              /\ props.readMarkerVisible
              /\ ghostReadMarkers' = Append(ghostReadMarkers, props.readMarkerEventId)
        /\ pendingRerender => ghostReadMarkers' = ghostReadMarkers
      ]_vars

\* the marker has just moved from event 1 to event 2: 1 was appended to the ghosts
\* and the follow-up render is due
C7_Witness ==
    /\ pendingRerender
    /\ props.readMarkerEventId = 2
    /\ Len(ghostReadMarkers) = 2
    /\ ghostReadMarkers[2] = 1

(***************************************************************************)
(* C8: a completion signal carrying id A leaves no A in ghostReadMarkers,  *)
(* keeps every other id as often as it was and in the same order, and      *)
(* changes nothing when A was not there.                                   *)
(***************************************************************************)
RECURSIVE IsSubSeq(_, _)
\* a is b with some elements left out
IsSubSeq(a, b) ==
    IF a = <<>> THEN TRUE
    ELSE IF b = <<>> THEN FALSE
    ELSE IF Head(a) = Head(b) THEN IsSubSeq(Tail(a), Tail(b))
    ELSE IsSubSeq(a, Tail(b))

C8_CompletionRemovesById ==
    [][\A A \in MarkerIds \ {None} :
          onGhostTransitionEnd(A) =>
              /\ A \notin Range(ghostReadMarkers')
              /\ \A x \in Range(ghostReadMarkers) \ {A} :
                    Count(x, ghostReadMarkers') = Count(x, ghostReadMarkers)
              /\ IsSubSeq(ghostReadMarkers', ghostReadMarkers)
              /\ A \notin Range(ghostReadMarkers) => ghostReadMarkers' = ghostReadMarkers
      ]_vars

\* two ghosts, 2 and 1, were animating and the completion signal of the younger one
\* has just been handled: 1 is gone, 2 is still there, the re-render has not run yet
C8_Witness ==
    /\ pendingRerender
    /\ committedGhostReadMarkers = <<2, 1>>
    /\ ghostReadMarkers = <<2>>
    /\ props.readMarkerEventId = 2

(***************************************************************************)
(* C9 (as claimed): whenever the read-marker event id changes away from    *)
(* event A, A is in ghostReadMarkers in the next state.                    *)
(***************************************************************************)
C9_AlwaysThroughGhost ==
    [][(props'.readMarkerEventId # props.readMarkerEventId /\ props.readMarkerEventId # None)
          => props.readMarkerEventId \in Range(ghostReadMarkers')]_vars

(***************************************************************************)
(* C9 (amended): when the read-marker event id changes away from A and the *)
(* previous readMarkerVisible was true, A is in ghostReadMarkers in the    *)
(* next state; when it was false, ghostReadMarkers stays as it is (A is    *)
(* dropped without becoming a ghost); and an id leaves ghostReadMarkers    *)
(* only in a completion signal carrying that id.                           *)
(***************************************************************************)
C9_ThroughGhostWhenVisible ==
    [][ /\ (props'.readMarkerEventId # props.readMarkerEventId /\ props.readMarkerVisible)
              => props.readMarkerEventId \in Range(ghostReadMarkers')
        /\ (props'.readMarkerEventId # props.readMarkerEventId /\ ~props.readMarkerVisible)
              => ghostReadMarkers' = ghostReadMarkers
        /\ \A x \in Range(ghostReadMarkers) \ Range(ghostReadMarkers') :
              x # None /\ onGhostTransitionEnd(x)
      ]_vars

\* the marker left event 1 while invisible: 1 is neither the marker nor a ghost,
\* while 2, left earlier while visible, is a ghost
C9_Witness ==
    /\ phase = "mounted"
    /\ props.readMarkerEventId = None
    /\ ~props.readMarkerVisible
    /\ ghostReadMarkers = <<2>>
    /\ ~pendingRerender

(***************************************************************************)
(* C10 (as claimed): both caches are empty before the component is mounted *)
(* and empty again once it is unmounted.                                   *)
(***************************************************************************)
C10_EmptyAfterUnmount ==
    phase \in {"constructed", "unmounted"} =>
        (readReceiptsByUserId = <<>> /\ ghostReadMarkers = <<>>)

(***************************************************************************)
(* C10 (amended): both caches are empty when the instance is constructed,  *)
(* ghostReadMarkers is still empty when componentDidMount has run, and     *)
(* unmounting leaves both caches as they were.                             *)
(***************************************************************************)
C10_EmptyAtConstruction ==
    /\ [](phase = "constructed" => (readReceiptsByUserId = <<>> /\ ghostReadMarkers = <<>>))
    /\ [][ /\ phase = "constructed" => ghostReadMarkers' = <<>>
           /\ phase' = "unmounted" =>
                 /\ ghostReadMarkers' = ghostReadMarkers
                 /\ readReceiptsByUserId' = readReceiptsByUserId
         ]_vars

\* unmounted with a ghost and a cached receipt still there
C10_Witness ==
    /\ phase = "unmounted"
    /\ ghostReadMarkers # <<>>
    /\ readReceiptsByUserId # <<>>

(***************************************************************************)
(* C11: a callback delivered after the unmount is a no-op.  Once the panel *)
(* is unmounted, no step changes GhostReadMarkers or any other state of    *)
(* the panel: its flag, its props, its caches, its ghost nodes.            *)
(***************************************************************************)
C11_LateCallbacksAreNoOps ==
    [][phase = "unmounted" =>
          UNCHANGED <<isMounted, props, ghostReadMarkers, readReceiptsByEvent,
                      readReceiptsByUserId, showHiddenEventsInTimeline, ghostNodes>>]_vars

(***************************************************************************)
(* C12: the Visibility Filter is the ordered, first-match-wins rule list   *)
(*   ignored sender -> hidden; not a message or sticker -> hidden;         *)
(*   in-reply-to relation -> hidden; redacted -> hidden; debug setting on  *)
(*   -> shown; no tile -> hidden; highlighted -> shown; otherwise shown    *)
(*   unless hidden by default                                              *)
(* for every combination of inputs.  So the debug setting never shows an   *)
(* ignored, non-message, reply or redacted event, and highlighting never   *)
(* shows an event that has no tile.                                        *)
(***************************************************************************)
FilterRules(mxEv) ==
    << << mxEv.sender \in ignoredUsers,                          FALSE >>,
       << mxEv.type \notin {"m.sticker", "m.room.message"},      FALSE >>,
       << mxEv.inReplyTo # None,                                 FALSE >>,
       << mxEv.redacted,                                         FALSE >>,
       << showHiddenEventsInTimeline,                            TRUE >>,
       << ~mxEv.haveTile,                                        FALSE >>,
       << props.highlightedEventId = mxEv.id,                    TRUE >>,
       << TRUE,                                                  ~mxEv.hideByDefault >> >>

FirstMatch(rules) ==
    rules[CHOOSE k \in 1..Len(rules) :
              rules[k][1] /\ \A j \in 1..(k - 1) : ~rules[j][1]][2]

C12_FilterIsRuleList ==
    out # <<>> =>
        LET mxEv == MatrixEvent(props.events[1])
        IN  /\ out[1] = FirstMatch(FilterRules(mxEv))
            /\ ( /\ showHiddenEventsInTimeline
                 /\ \/ mxEv.sender \in ignoredUsers
                    \/ mxEv.type \notin {"m.sticker", "m.room.message"}
                    \/ mxEv.inReplyTo # None
                    \/ mxEv.redacted
                 => ~out[1] )
            /\ ( /\ props.highlightedEventId = mxEv.id
                 /\ ~mxEv.haveTile
                 /\ ~showHiddenEventsInTimeline
                 => ~out[1] )

\* a redacted event under the debug setting, and a highlighted one without a tile
C12_Witness ==
    /\ out # <<>>
    /\ LET mxEv == MatrixEvent(props.events[1])
       IN  \/ showHiddenEventsInTimeline /\ mxEv.redacted /\ mxEv.sender \notin ignoredUsers
              /\ mxEv.type = "m.room.message" /\ mxEv.inReplyTo = None
           \/ ~showHiddenEventsInTimeline /\ ~mxEv.haveTile /\ props.highlightedEventId = mxEv.id
              /\ mxEv.sender \notin ignoredUsers /\ mxEv.type = "m.room.message"
              /\ mxEv.inReplyTo = None /\ ~mxEv.redacted

(***************************************************************************)
(* C13: isContinuation(prev, curr) is false exactly when one of these      *)
(* holds: prev is absent; prev or curr lacks sender information; curr is   *)
(* more than 300000 ms later than prev; their redaction states differ;     *)
(* their types differ and one of them is not a continuable type; sender    *)
(* id, display name or avatar differ; prev has no tile.  It is true for    *)
(* same-sender messages 60000 ms apart.                                    *)
(***************************************************************************)
C13_Continuation ==
    out # <<>> =>
        LET prev == PairPrev
            curr == PairCurr
            continuable == {"m.sticker", "m.room.message"}
            broken ==
                \/ prev.id = None
                \/ prev.sender = NoUser
                \/ curr.sender = NoUser
                \/ curr.ts - prev.ts > 300000
                \/ curr.redacted # prev.redacted
                \/ curr.type # prev.type /\ ~({curr.type, prev.type} \subseteq continuable)
                \/ curr.sender # prev.sender
                \/ curr.senderName # prev.senderName
                \/ curr.senderAvatar # prev.senderAvatar
                \/ ~prev.haveTile
        IN  /\ out[1] = ~broken
            /\ (prev.id # None /\ curr.ts - prev.ts > 300000 => ~out[1])
            /\ (prev.id # None /\ curr.redacted # prev.redacted => ~out[1])

\* a gap of exactly five minutes continues; a sticker continues a message
C13_Witness ==
    /\ out = <<TRUE>>
    /\ PairPrev.id # None
    /\ \/ PairCurr.ts - PairPrev.ts = 300000
       \/ PairCurr.ts - PairPrev.ts = 60000 /\ PairCurr.type # PairPrev.type

(***************************************************************************)
(* Vocabulary of the render-list properties.                               *)
(***************************************************************************)
\* the top-level tiles of a render list, in order
TopTiles(list) == SelectSeq(list, LAMBDA n : n.kind = "tile")

\* the tile of event e among a sequence of tiles
TileOf(tiles, e) == tiles[CHOOSE k \in 1..Len(tiles) : tiles[k].eventId = e]

\* the events of the log that come after index i and are shown
LaterShown(p, i) == { j \in ShownIndices(p) : j > i }

SentOrNoStatus(mxEv) == mxEv.status \in {NoStatus, "sent"}

(***************************************************************************)
(* C14: a shown top-level event with no later shown event in the log has   *)
(* lastSuccessful true iff it was sent by the local user and its own send  *)
(* status is absent or 'sent'; no tile of an event sent by another user or *)
(* with an unsent status has the flag.                                     *)
(***************************************************************************)
C14_LastShownFlag ==
    out # <<>> =>
        LET tiles == TopTiles(out[1])
        IN  \A i \in ShownIndices(props) :
                LET mxEv == MatrixEvent(props.events[i])
                    flag == TileOf(tiles, mxEv.id).lastSuccessful
                    own  == mxEv.getSender = MyUserId /\ SentOrNoStatus(mxEv)
                IN  /\ LaterShown(props, i) = {} => (flag <=> own)
                    /\ flag => own

\* the last shown event is the viewer's, sent, flagged, and a hidden event follows it
C14_Witness ==
    /\ out # <<>>
    /\ \E i \in ShownIndices(props) :
          /\ LaterShown(props, i) = {}
          /\ i < Len(props.events)
          /\ TileOf(TopTiles(out[1]), props.events[i]).lastSuccessful

(***************************************************************************)
(* C15: in a log of self-authored events, a later successful delivery      *)
(* supersedes an earlier one.  A sent event is flagged lastSuccessful when *)
(* its next shown event is not yet sent, and not when a shown event after  *)
(* it is sent, whether the events in between are hidden or shown but       *)
(* unsent: the flag of a sent event says that no later shown event is      *)
(* sent.                                                                   *)
(***************************************************************************)
C15_LaterDeliverySupersedes ==
    (out # <<>> /\ \A i \in 1..Len(props.events) :
                      MatrixEvent(props.events[i]).getSender = MyUserId) =>
        \A i \in ShownIndices(props) :
            LET mxEv == MatrixEvent(props.events[i])
                flag == TileOf(TopTiles(out[1]), mxEv.id).lastSuccessful
            IN  SentOrNoStatus(mxEv) =>
                    (flag <=> ~\E j \in LaterShown(props, i) :
                                  SentOrNoStatus(MatrixEvent(props.events[j])))

(***************************************************************************)
(* C16: in every render in which the current read-marker id is the id of   *)
(* an event of the log, exactly one active read-marker node is emitted,    *)
(* for that id: also when the event is the last of the log, when           *)
(* readMarkerVisible is false and when the id is in GhostReadMarkers too   *)
(* (no ghost node is emitted for it then).  Only the <hr> inside the node  *)
(* is left out.                                                            *)
(***************************************************************************)
MarkerNodes(list) == SelectSeq(list, LAMBDA n : n.kind = "readMarker")

GhostMarkerNodes(list) == SelectSeq(list, LAMBDA n : n.kind = "ghost")

C16_OneActiveMarker ==
    [][RenderStep =>
          LET list == getEventTilesRet(props')
              id == props'.readMarkerEventId
          IN  id \in Range(props'.events) =>
                  /\ Len(MarkerNodes(list)) = 1
                  /\ MarkerNodes(list)[1].eventId = id
                  /\ \A k \in 1..Len(GhostMarkerNodes(list)) : GhostMarkerNodes(list)[k].eventId # id]_vars

\* rendered with the marker on the last event of the log, not visible, its id a ghost too
C16_Witness ==
    /\ phase = "mounted"
    /\ ~pendingRerender
    /\ props.events # <<>>
    /\ props.readMarkerEventId = props.events[Len(props.events)]
    /\ ~props.readMarkerVisible
    /\ props.readMarkerEventId \in Range(ghostReadMarkers)
    /\ Len(MarkerNodes(getEventTilesRet(props))) = 1
    /\ ~MarkerNodes(getEventTilesRet(props))[1].hr

(***************************************************************************)
(* More vocabulary: the tiles of a render list at every level, each with   *)
(* the event whose tile it is nested in (None at the top level).           *)
(***************************************************************************)
RECURSIVE Flatten(_, _)
Flatten(tiles, under) ==
    IF Len(tiles) = 0 THEN <<>>
    ELSE LET t == Head(tiles)
         IN  << [ eventId |-> t.eventId, level |-> t.level, under |-> under,
                  continuation |-> t.continuation ] >>
             \o Flatten(t.subTiles, t.eventId)
             \o Flatten(Tail(tiles), under)

AllTiles(list) == Flatten(TopTiles(list), None)

\* the tiles, at any level, of event e
TilesOfEvent(list, e) == SelectSeq(AllTiles(list), LAMBDA t : t.eventId = e)

IdsOf(tiles) == [k \in 1..Len(tiles) |-> tiles[k].eventId]

\* the event objects of the log
LogEvents == Range(EventsOf(props))

IsReply(mxEv) == mxEv.inReplyTo # None

(***************************************************************************)
(* C17: the render list holds exactly one top-level tile for every event   *)
(* of the log the Visibility Filter accepts and none for any other event,  *)
(* in the order of the log.                                                *)
(***************************************************************************)
C17_TopLevelTilesAreShownEvents ==
    out # <<>> =>
        IdsOf(TopTiles(out[1]))
            = SelectSeq(props.events, LAMBDA e : shouldShowEvent(MatrixEvent(e), props))

\* two events with tiles and, between them, one without
C17_Witness ==
    /\ out # <<>>
    /\ IdsOf(TopTiles(out[1])) = <<1, 3>>
    /\ props.events = <<1, 2, 3>>

(***************************************************************************)
(* C18, as stated: a reply never produces a top-level tile; whenever its   *)
(* parent is in the log it is rendered exactly once, nested under the tile *)
(* of its parent at the parent's level plus one.                           *)
(***************************************************************************)
C18_ReplyRenderedWhenParentInLog ==
    out # <<>> =>
        \A mxEv \in LogEvents :
            IsReply(mxEv) =>
                /\ \A k \in 1..Len(TopTiles(out[1])) : TopTiles(out[1])[k].eventId # mxEv.id
                /\ mxEv.inReplyTo \in Range(props.events) =>
                       /\ Len(TilesOfEvent(out[1], mxEv.id)) = 1
                       /\ Len(TilesOfEvent(out[1], mxEv.inReplyTo)) = 1
                       /\ TilesOfEvent(out[1], mxEv.id)[1].under = mxEv.inReplyTo
                       /\ TilesOfEvent(out[1], mxEv.id)[1].level
                              = TilesOfEvent(out[1], mxEv.inReplyTo)[1].level + 1

(***************************************************************************)
(* C18, amended: a reply never produces a top-level tile; it is rendered   *)
(* exactly once, nested under the tile of its parent at the parent's level *)
(* plus one, whenever its parent has a tile itself, and it is not rendered *)
(* at all when its parent has no tile or is not in the log.                *)
(***************************************************************************)
C18_ReplyRenderedWhenParentRendered ==
    out # <<>> =>
        \A mxEv \in LogEvents :
            IsReply(mxEv) =>
                /\ \A k \in 1..Len(TopTiles(out[1])) : TopTiles(out[1])[k].eventId # mxEv.id
                /\ IF Len(TilesOfEvent(out[1], mxEv.inReplyTo)) > 0
                   THEN /\ Len(TilesOfEvent(out[1], mxEv.id)) = 1
                        /\ Len(TilesOfEvent(out[1], mxEv.inReplyTo)) = 1
                        /\ TilesOfEvent(out[1], mxEv.id)[1].under = mxEv.inReplyTo
                        /\ TilesOfEvent(out[1], mxEv.id)[1].level
                               = TilesOfEvent(out[1], mxEv.inReplyTo)[1].level + 1
                   ELSE Len(TilesOfEvent(out[1], mxEv.id)) = 0

\* a reply to a reply, rendered at level 2, and a reply whose parent has no tile
C18_Witness ==
    /\ out # <<>>
    /\ \/ \E mxEv \in LogEvents :
             /\ IsReply(mxEv)
             /\ Len(TilesOfEvent(out[1], mxEv.id)) = 1
             /\ TilesOfEvent(out[1], mxEv.id)[1].level = 2
       \/ \E mxEv \in LogEvents :
             /\ IsReply(mxEv)
             /\ mxEv.inReplyTo \in Range(props.events)
             /\ mxEv.inReplyTo # mxEv.id
             /\ Len(TilesOfEvent(out[1], mxEv.id)) = 0

(***************************************************************************)
(* C19: no tile is emitted, at the top level or nested, for an event whose *)
(* sender is on the ignore list or for a redacted event.                   *)
(***************************************************************************)
C19_NoTileForIgnoredOrRedacted ==
    out # <<>> =>
        \A mxEv \in LogEvents :
            (mxEv.sender \in ignoredUsers \/ mxEv.redacted) =>
                Len(TilesOfEvent(out[1], mxEv.id)) = 0

(***************************************************************************)
(* C20: the continuation flag of the top-level tile of e is                *)
(* isContinuation(p, e), p being the most recent earlier event of the log  *)
(* with a top-level tile (absent for the first shown event, whose flag is  *)
(* false); every sub-event tile has continuation false.                    *)
(***************************************************************************)
C20_ContinuationAgainstLastShown ==
    out # <<>> =>
        /\ \A i \in ShownIndices(props) :
               LET mxEv == MatrixEvent(props.events[i])
                   j == NearestShown(props, i - 1)
                   prev == IF j = 0 THEN NoEvent ELSE MatrixEvent(props.events[j])
               IN  /\ TileOf(TopTiles(out[1]), mxEv.id).continuation
                          = shouldFormContinuation(prev, mxEv)
                   /\ j = 0 => ~TileOf(TopTiles(out[1]), mxEv.id).continuation
        /\ \A k \in 1..Len(AllTiles(out[1])) :
               AllTiles(out[1])[k].level > 0 => ~AllTiles(out[1])[k].continuation

\* a continuation across a rendered reply of the same sender, and one across a hidden
\* event of another sender
C20_Witness ==
    /\ out # <<>>
    /\ Len(props.events) = 3
    /\ IdsOf(TopTiles(out[1])) = <<1, 3>>
    /\ TileOf(TopTiles(out[1]), 3).continuation
    /\ \/ Len(TilesOfEvent(out[1], 2)) = 1
       \/ MatrixEvent(2).sender # MatrixEvent(3).sender

(***************************************************************************)
(* Vocabulary of the marker properties.                                    *)
(***************************************************************************)
\* the index in the log of the event with id e (0: it is not in the log)
IndexInLog(e) ==
    IF \E i \in 1..Len(props.events) : props.events[i] = e
    THEN CHOOSE i \in 1..Len(props.events) : props.events[i] = e
    ELSE 0

\* the greatest index of an event that is shown and has no send status (0: none)
LastShownNonLocalEcho ==
    LET S == { i \in ShownIndices(props) : MatrixEvent(props.events[i]).status = NoStatus }
    IN  IF S = {} THEN 0 ELSE CHOOSE i \in S : \A j \in S : j <= i

\* the active marker node of the render list is there and holds its <hr>
IndicatorDrawn(list) == Len(MarkerNodes(list)) = 1 /\ MarkerNodes(list)[1].hr

(***************************************************************************)
(* C21, as stated: the visible indicator of the active read marker is      *)
(* drawn iff readMarkerVisible is true and the marker's event is not the   *)
(* last shown event that is not a local echo; on any other event of the    *)
(* log it is drawn.                                                        *)
(***************************************************************************)
C21_DrawnUnlessOnLastShown ==
    (out # <<>> /\ IndexInLog(props.readMarkerEventId) # 0) =>
        (IndicatorDrawn(out[1])
            <=> /\ props.readMarkerVisible
                /\ IndexInLog(props.readMarkerEventId) # LastShownNonLocalEcho)

(***************************************************************************)
(* C21, amended: the visible indicator is drawn iff readMarkerVisible is   *)
(* true and the marker's event comes before the last shown event that is   *)
(* not a local echo; on that event, on any later event of the log, and     *)
(* when no shown event is without a send status, it is not drawn.          *)
(***************************************************************************)
C21_DrawnBeforeLastShown ==
    (out # <<>> /\ IndexInLog(props.readMarkerEventId) # 0) =>
        (IndicatorDrawn(out[1])
            <=> /\ props.readMarkerVisible
                /\ IndexInLog(props.readMarkerEventId) < LastShownNonLocalEcho)

\* the indicator is drawn on an event before the last shown one, with a local echo behind
C21_Witness ==
    /\ out # <<>>
    /\ IndicatorDrawn(out[1])
    /\ LastShownNonLocalEcho < Len(props.events)
    /\ MatrixEvent(props.events[Len(props.events)]).status # NoStatus

(***************************************************************************)
(* More vocabulary: where the nodes of a render list sit.                  *)
(***************************************************************************)
IsMarkerOrGhost(n) == n.kind \in {"readMarker", "ghost"}

\* the node at position k directly follows the tile of its own event
FollowsOwnTile(list, k) ==
    /\ k > 1
    /\ list[k - 1].kind = "tile"
    /\ list[k - 1].eventId = list[k].eventId

(***************************************************************************)
(* C22, as stated: every read-marker node and every ghost node of the      *)
(* render list directly follows the tile of its own anchor event, and its  *)
(* anchor event is shown.                                                  *)
(***************************************************************************)
C22_MarkersFollowOwnTile ==
    out # <<>> =>
        \A k \in 1..Len(out[1]) :
            IsMarkerOrGhost(out[1][k]) =>
                /\ out[1][k].eventId \in ShownIds(props)
                /\ FollowsOwnTile(out[1], k)

(***************************************************************************)
(* C22, amended: every read-marker node and every ghost node is emitted at *)
(* the place of its own event in the order of the log, whether that event  *)
(* is shown or hidden: its event is in the log; when the event is shown    *)
(* the node directly follows the event's tile; when it is hidden the node  *)
(* comes after the tiles of the earlier events and before the tiles of the *)
(* later ones.  An event has at most one such node.                        *)
(***************************************************************************)
C22_MarkersAtOwnEvent ==
    out # <<>> =>
        \A k \in 1..Len(out[1]) :
            IsMarkerOrGhost(out[1][k]) =>
                LET i == IndexInLog(out[1][k].eventId)
                IN  /\ i # 0
                    /\ i \in ShownIndices(props) => FollowsOwnTile(out[1], k)
                    /\ \A m \in 1..Len(out[1]) :
                           /\ (m < k /\ out[1][m].kind = "tile")
                                  => IndexInLog(out[1][m].eventId) <= i
                           /\ (m > k /\ out[1][m].kind = "tile")
                                  => IndexInLog(out[1][m].eventId) > i
                           /\ (m # k /\ IsMarkerOrGhost(out[1][m]))
                                  => out[1][m].eventId # out[1][k].eventId

\* a marker or ghost node of a hidden event, directly after the tile of another event
C22_Witness ==
    /\ out # <<>>
    /\ \E k \in 2..Len(out[1]) :
          /\ IsMarkerOrGhost(out[1][k])
          /\ out[1][k].eventId \notin ShownIds(props)
          /\ out[1][k - 1].kind = "tile"
          /\ k < Len(out[1])

(***************************************************************************)
(* C23: a render with showReadReceipts off passes no receipts to any tile  *)
(* (receiptsByEvent is empty) and leaves the per-user cache exactly as it  *)
(* was; the render that turns receipts on again keeps every cached user in *)
(* the cache and puts a receipt of that user in some bucket.               *)
(***************************************************************************)
C23_DisabledLeavesCache ==
    [][RenderStep =>
          /\ ~props'.showReadReceipts =>
                 /\ readReceiptsByEvent' = EmptyMap
                 /\ readReceiptsByUserId' = readReceiptsByUserId
          /\ (~props.showReadReceipts /\ props'.showReadReceipts /\ props'.room) =>
                 \A u \in UserIdsOf(readReceiptsByUserId) :
                     /\ u \in UserIdsOf(readReceiptsByUserId')
                     /\ \E e \in DOMAIN readReceiptsByEvent' :
                            \E k \in 1..Len(readReceiptsByEvent'[e]) :
                                readReceiptsByEvent'[e][k].userId = u]_vars

\* rendered with receipts off while the cache holds a user whose receipt is gone
C23_Witness ==
    /\ phase = "mounted"
    /\ ~props.showReadReceipts
    /\ readReceiptsByEvent = EmptyMap
    /\ UserIdsOf(readReceiptsByUserId) \ UsersWithReceipt(props) # {}

(***************************************************************************)
(* C24: a render never fails because a collaborator is missing.  With      *)
(* receipts enabled, no room and at least one shown event in the log, the  *)
(* receipt aggregation completes, with no receipts for any event.          *)
(***************************************************************************)
C24_NoRoomNoError ==
    (out # <<>> /\ ~props.room /\ ShownIds(props) # {}) =>
        /\ ~out[1].threw
        /\ \A e \in DOMAIN out[1].receiptsByEvent : out[1].receiptsByEvent[e] = <<>>

(***************************************************************************)
(* C25: GhostReadMarkers is a set in every reachable state: whatever read  *)
(* marker moves and completion signals have happened, no event id occurs   *)
(* in it more than once.                                                   *)
(***************************************************************************)
C25_GhostsAreASet ==
    \A j, k \in 1..Len(ghostReadMarkers) :
        ghostReadMarkers[j] = ghostReadMarkers[k] => j = k

(***************************************************************************)
(* Specification SpecGhosts: Spec's panel, never unmounted.  A ghost node  *)
(* that is in the DOM with its width and opacity set by the frame callback *)
(* runs its CSS transition and fires transitionend, and only such a node   *)
(* does.  The panel is mounted, the render a setState() asked for runs,    *)
(* a scheduled frame callback runs, and a node that keeps being rendered   *)
(* delivers its transitionend; the parent's prop changes are free.  The    *)
(* two callbacks wait while a render is pending, so their fairness is      *)
(* strong: renders that keep coming do not starve them.                    *)
(***************************************************************************)
\* the transitionend event of the ghost node rendered for event e
NodeTransitionEnd(e) ==
    /\ e \in AttachedGhostNodes
    /\ ghostNodes[e].style = "shrunk"
    /\ onGhostTransitionEnd(e)

GhostNodeTransitionEnd == \E e \in MarkerIds \ {None} : NodeTransitionEnd(e)

NextGhosts ==
    \/ Mount
    \/ MoveMarker
    \/ NewEvents
    \/ Rerender
    \/ FrameCallback
    \/ GhostNodeTransitionEnd

SpecGhosts ==
    /\ Init
    /\ [][NextGhosts]_vars
    /\ WF_vars(Mount)
    /\ WF_vars(Rerender)
    /\ \A e \in MarkerIds \ {None} :
           SF_vars(AnimationFrame(e)) /\ SF_vars(NodeTransitionEnd(e))

\* event id e is in state.ghostReadMarkers
IsGhost(e) == \E k \in 1..Len(ghostReadMarkers) : ghostReadMarkers[k] = e

(***************************************************************************)
(* C26: every id that enters GhostReadMarkers is eventually removed from   *)
(* it, while the panel stays mounted, renders keep happening and every     *)
(* rendered ghost node delivers its transitionend; ghosts whose event is   *)
(* absent from the log and ghosts whose id is the current read marker's    *)
(* included.                                                               *)
(***************************************************************************)
C26_GhostsAreRemoved ==
    \A e \in MarkerIds \ {None} : IsGhost(e) ~> ~IsGhost(e)

(***************************************************************************)
(* C27: after every aggregation pass the two receipt structures agree.     *)
(* For every user of this._readReceiptsByUserId, with entry                *)
(* {lastShownEventId: E, receipt: R}, the list readReceiptsByEvent[E]      *)
(* exists and contains R; and every receipt of every list belongs to a     *)
(* user that is in this._readReceiptsByUserId.                             *)
(***************************************************************************)
C27_StructuresAgree ==
    [][AggregationPass =>
        /\ \A k \in 1..Len(readReceiptsByUserId') :
              LET entry == readReceiptsByUserId'[k]
              IN  /\ entry.lastShownEventId \in DOMAIN readReceiptsByEvent'
                  /\ entry.receipt \in Range(readReceiptsByEvent'[entry.lastShownEventId])
        /\ \A e \in DOMAIN readReceiptsByEvent' :
              \A j \in 1..Len(readReceiptsByEvent'[e]) :
                  readReceiptsByEvent'[e][j].userId \in UserIdsOf(readReceiptsByUserId')
      ]_vars

\* two users are cached after a pass: one has a receipt in the room, the other's was
\* put back by the second loop; each one's receipt is in the list of its event
C27_Witness ==
    /\ phase = "mounted"
    /\ props.showReadReceipts
    /\ Len(readReceiptsByUserId) = 2
    /\ UserIdsOf(readReceiptsByUserId) \cap UsersWithReceipt(props) # {}
    /\ UserIdsOf(readReceiptsByUserId) \ UsersWithReceipt(props) # {}
    /\ \A k \in 1..Len(readReceiptsByUserId) :
          /\ readReceiptsByUserId[k].lastShownEventId \in DOMAIN readReceiptsByEvent
          /\ readReceiptsByUserId[k].receipt
                 \in Range(readReceiptsByEvent[readReceiptsByUserId[k].lastShownEventId])

\* event mxEv replies to itself, or to an event of the log that replies to it
InReplyCycle(mxEv) ==
    \/ mxEv.inReplyTo = mxEv.id
    \/ \E other \in LogEvents :
          /\ mxEv.inReplyTo = other.id
          /\ other.inReplyTo = mxEv.id

(***************************************************************************)
(* C28: building the render list terminates for every finite log, also     *)
(* when the reply relations form a cycle or an event replies to itself.    *)
(* The list _getEventTiles returns holds at most one tile, at any level,   *)
(* for every event of the log, and no tile lies deeper than the log is     *)
(* long: the recursion over sub-events visits each event at most once.     *)
(***************************************************************************)
C28_EachEventVisitedOnce ==
    out # <<>> =>
        /\ \A mxEv \in LogEvents : Len(TilesOfEvent(out[1], mxEv.id)) <= 1
        /\ \A t \in Range(AllTiles(out[1])) : t.level < Len(props.events)

\* the list was built for a log holding a reply cycle, and it has a sub-event tile
C28_Witness ==
    /\ out # <<>>
    /\ \E mxEv \in LogEvents : InReplyCycle(mxEv)
    /\ \E t \in Range(AllTiles(out[1])) : t.level = 1

\* the list was built for a log that is nothing but a two-event reply cycle
C28_WitnessCycleOnly ==
    /\ out # <<>>
    /\ Len(props.events) = 2
    /\ \A mxEv \in LogEvents : InReplyCycle(mxEv) /\ mxEv.inReplyTo # mxEv.id

====
